---- MODULE Spec2Model ----
(***************************************************************************)
(* The OGC protocol layer of the ESDA web-mapping backend:                 *)
(*   backend/app/api/v1/endpoints_ogc.py   the four HTTP endpoints         *)
(*   backend/app/services/ogc_services.py  WMSService / WFSService         *)
(*   backend/app/utils/geospatial.py       parse_bbox_string               *)
(*   backend/app/utils/ogc_xml_formatter.py format_ogc_exception_xml       *)
(*                                                                         *)
(* Representation of Python values                                         *)
(*   str that is only compared for equality or list membership (service,   *)
(*       request, crs, format): a TLA+ string.                             *)
(*   str that is searched, split or parsed (Accept header, layers, styles, *)
(*       type_names, bbox, exception texts): a sequence of atoms, an atom  *)
(*       being a run of characters that no searched-for needle and no      *)
(*       separator overlaps; for bbox an atom is one character.            *)
(*   Optional[T]: <<>> for None, <<v>> for a value v.                      *)
(*   float: a fixed-point integer, in units of 10^-6.                      *)
(*   a call that may raise: [ok |-> TRUE, v |-> value] or                  *)
(*       [ok |-> FALSE, exc |-> exception].                                *)
(***************************************************************************)
EXTENDS Integers, Sequences, FiniteSets, TLC

\* Longest Accept header, in atoms, that a request of the model carries.
MaxAcceptLen == 2

None == <<>>
Some(v) == <<v>>
IsNone(o) == Len(o) = 0
Val(o) == o[1]

Ok(v) == [ok |-> TRUE, v |-> v]
Raise(e) == [ok |-> FALSE, exc |-> e]

\* Python `needle in hay` on str: contiguous occurrence.
IsSubstring(needle, hay) ==
    \E i \in 0..(Len(hay) - Len(needle)) :
        SubSeq(hay, i + 1, i + Len(needle)) = needle

\* Index of the first separator in s, 0 when there is none.
RECURSIVE FirstIndex(_, _, _)
FirstIndex(s, sep, i) ==
    IF i > Len(s) THEN 0
    ELSE IF s[i] = sep THEN i
    ELSE FirstIndex(s, sep, i + 1)

\* Python str.split(sep): "".split(",") is [""], "a,".split(",") is ["a", ""].
RECURSIVE Split(_, _)
Split(s, sep) ==
    LET i == FirstIndex(s, sep, 1)
    IN  IF i = 0 THEN <<s>>
        ELSE <<SubSeq(s, 1, i - 1)>> \o Split(SubSeq(s, i + 1, Len(s)), sep)

Digits == {"0", "1", "2", "3", "4", "5", "6", "7", "8", "9"}

DigitVal(c) ==
    CASE c = "0" -> 0 [] c = "1" -> 1 [] c = "2" -> 2 [] c = "3" -> 3
      [] c = "4" -> 4 [] c = "5" -> 5 [] c = "6" -> 6 [] c = "7" -> 7
      [] c = "8" -> 8 [] c = "9" -> 9

IsDigits(s) == \A i \in 1..Len(s) : s[i] \in Digits

RECURSIVE NatOf(_)
NatOf(ds) ==
    IF Len(ds) = 0 THEN 0
    ELSE 10 * NatOf(SubSeq(ds, 1, Len(ds) - 1)) + DigitVal(ds[Len(ds)])

\* The ValueError of float(tok).
NotAFloat(tok) ==
    Raise([cls |-> "ValueError", msg |-> <<"could not convert string to float: ">> \o tok])

\* The token without its sign.
Unsigned(tok) ==
    IF Len(tok) > 0 /\ tok[1] \in {"-", "+"} THEN SubSeq(tok, 2, Len(tok)) ELSE tok

\* The value, in millionths, of the mantissa mant, which is digits
\* [ "." [digits] ] or "." digits with its "." at place dot (0: none), times 10
\* to the power e (digits after the sixth fraction digit are dropped).
DecimalValue(tok, mant, dot, e) ==
    LET ip == IF dot = 0 THEN mant ELSE SubSeq(mant, 1, dot - 1)
        fp == IF dot = 0 THEN <<>> ELSE SubSeq(mant, dot + 1, Len(mant))
        k == 6 + e - (IF dot = 0 THEN 0 ELSE Len(mant) - dot)
    IN  IF IsDigits(ip) /\ IsDigits(fp) /\ Len(ip) + Len(fp) > 0
        THEN Ok(IF k >= 0 THEN NatOf(ip \o fp) * (10 ^ k)
                ELSE NatOf(ip \o fp) \div (10 ^ (0 - k)))
        ELSE NotAFloat(tok)

\* The exponent after "e": [sign] digits.
ExponentValue(tok, expo) ==
    LET edigits == Unsigned(expo)
    IN  IF Len(edigits) > 0 /\ IsDigits(edigits)
        THEN Ok(IF expo[1] = "-" THEN 0 - NatOf(edigits) ELSE NatOf(edigits))
        ELSE NotAFloat(tok)

\* The value of mantissa and exponent, when the exponent is one.
WithExponent(tok, mant, e) ==
    IF e.ok THEN DecimalValue(tok, mant, FirstIndex(mant, ".", 1), e.v) ELSE e

\* The value of the unsigned token body, whose "e" is at place epos (0: none).
ParseUnsigned(tok, body, epos) ==
    IF epos = 0 THEN DecimalValue(tok, body, FirstIndex(body, ".", 1), 0)
    ELSE WithExponent(tok, SubSeq(body, 1, epos - 1),
                      ExponentValue(tok, SubSeq(body, epos + 1, Len(body))))

ParseBody(tok, body) == ParseUnsigned(tok, body, FirstIndex(body, "e", 1))

\* The magnitude with the sign of the token.
WithSign(tok, mag) ==
    IF mag.ok /\ Len(tok) > 0 /\ tok[1] = "-" THEN Ok(0 - mag.v) ELSE mag

\* Python float(tok) for tokens over digits, "-", "+", ".", "e" and other
\* characters: [sign] digits [ "." [digits] ] or [sign] "." digits, then an
\* optional exponent "e" [sign] digits; anything else raises ValueError.  The
\* value is in millionths.
ParseFloat(tok) == WithSign(tok, ParseBody(tok, Unsigned(tok)))

\* [float(x) for x in tokens]: the first token that does not parse raises.
RECURSIVE ParseFloats(_)
ParseFloats(toks) ==
    IF Len(toks) = 0 THEN Ok(<<>>)
    ELSE LET h == ParseFloat(toks[1])
         IN  IF ~h.ok THEN h
             ELSE LET t == ParseFloats(SubSeq(toks, 2, Len(toks)))
                  IN  IF ~t.ok THEN t ELSE Ok(<<h.v>> \o t.v)

\* The message of the ValueError parse_bbox_string raises for bbox_str.
InvalidBBoxMsg(bbox_str) ==
    <<"Invalid bbox format: ">> \o bbox_str
        \o <<". Expected format: min_lon,min_lat,max_lon,max_lat">>

\* parse_bbox_string without its `len(bbox) != 4` check.
parse_bbox_string_NoCountCheck(bbox_str) ==
    LET bbox == ParseFloats(Split(bbox_str, ","))
    IN  IF bbox.ok
        THEN Ok(bbox.v)
        ELSE Raise([cls |-> "ValueError", msg |-> InvalidBBoxMsg(bbox_str)])

\* parse_bbox_string returning the numbers as min_lat,min_lon,max_lat,max_lon.
parse_bbox_string_LatLon(bbox_str) ==
    LET bbox == ParseFloats(Split(bbox_str, ","))
    IN  IF bbox.ok /\ Len(bbox.v) = 4
        THEN Ok(<<bbox.v[2], bbox.v[1], bbox.v[4], bbox.v[3]>>)
        ELSE Raise([cls |-> "ValueError", msg |-> InvalidBBoxMsg(bbox_str)])

\* utils/geospatial.py parse_bbox_string: floats of the comma-separated tokens,
\* then the count check; every failure is re-raised as one ValueError.
parse_bbox_string(bbox_str) ==
    LET bbox == ParseFloats(Split(bbox_str, ","))
    IN  IF bbox.ok /\ Len(bbox.v) = 4
        THEN Ok(bbox.v)
        ELSE Raise([cls |-> "ValueError", msg |-> InvalidBBoxMsg(bbox_str)])

\* Module-level lists of services/ogc_services.py (mutable Python lists).
VARIABLES SUPPORTED_CRS, SUPPORTED_WMS_FORMATS, SUPPORTED_WFS_FORMATS

\* phase: "idle" (no request in the handler) or "done" (a response was built);
\* req: the HTTP request being answered; resp: the response returned for it;
\* raised: the exception the endpoint's try block ended with (None: it returned).
VARIABLES phase, req, resp, raised

registries == <<SUPPORTED_CRS, SUPPORTED_WMS_FORMATS, SUPPORTED_WFS_FORMATS>>

\* core/middleware.py RateLimitMiddleware. rate_limiter: the middleware object
\* (requests_per_minute, window_seconds, requests: client host -> list of
\* timestamps); current_time: the clock time.time() reads; passed_on: per client
\* host the timestamps of the requests given to call_next, in call order.
VARIABLES rate_limiter, current_time, passed_on

limiter == <<rate_limiter, current_time, passed_on>>
vars == <<SUPPORTED_CRS, SUPPORTED_WMS_FORMATS, SUPPORTED_WFS_FORMATS, phase, req, resp, raised,
          rate_limiter, current_time, passed_on>>

\* core/config.py Settings: the defaults of the rate limit.
RATE_LIMIT_REQUESTS == 100

RATE_LIMIT_PERIOD == 60

\* request.client.host of the clients that send requests.
ClientHosts == {"10.0.0.1", "10.0.0.2"}

\* RateLimitMiddleware.__init__: the limits and an empty dict of requests.
RateLimitMiddleware(requests_per_minute, window_seconds) ==
    [requests_per_minute |-> requests_per_minute,
     window_seconds |-> window_seconds,
     requests |-> [client_ip \in {} |-> <<>>]]

\* main.py app.add_middleware(RateLimitMiddleware): the middleware with the
\* limits of the settings, before any request.
LimiterAsConstructed ==
    /\ rate_limiter = RateLimitMiddleware(RATE_LIMIT_REQUESTS, RATE_LIMIT_PERIOD)
    /\ current_time = 0
    /\ passed_on = [client_ip \in ClientHosts |-> <<>>]

\* Python `x in list`.
InList(v, list) == \E i \in 1..Len(list) : list[i] = v

\* Python truthiness of an Optional[str] whose value is a TLA+ string.
TruthyStr(o) == ~IsNone(o) /\ Val(o) # ""

\* Python truthiness of an Optional[str] whose value is a sequence of atoms.
TruthySeq(o) == ~IsNone(o) /\ Len(Val(o)) > 0

\* Python truthiness of an Optional[int].
TruthyInt(o) == ~IsNone(o) /\ Val(o) # 0

SupportedCrsList == <<"EPSG:4326", "EPSG:3857", "EPSG:3395", "CRS:84">>

SupportedWmsFormatList == <<"image/png", "image/jpeg", "image/gif", "image/tiff">>

\* The feature format list with an image format added to it.
SupportedWfsFormatList_WithPng ==
    <<"application/json", "application/gml+xml", "text/xml", "csv", "image/png">>

SupportedWfsFormatList == <<"application/json", "application/gml+xml", "text/xml", "csv">>

OGCServiceType_WMS == "WMS"

OGCServiceType_WFS == "WFS"

OGCVersion_WMS_1_3_0 == "1.3.0"

OGCVersion_WFS_2_0_0 == "2.0.0"

\* class OGCServiceException(Exception): super().__init__(text) makes str(e) the
\* text.  context is Python's __context__: the exception being handled when this
\* one was raised, None when it was raised outside an except clause.
OGCServiceExceptionFrom(code, text, locator, context) ==
    [cls |-> "OGCServiceException", exception_code |-> code,
     exception_text |-> text, locator |-> locator, msg |-> text,
     context |-> context]

OGCServiceException(code, text, locator) ==
    OGCServiceExceptionFrom(code, text, locator, None)

ContactInformation ==
    [person_primary |-> [person_name |-> "Administrator", organization |-> "ESDA"],
     contact_email |-> "admin@example.com"]

WmsLayers ==
    << [name |-> "basemap", title |-> "Base Map", abstract |-> "Base map layer",
        queryable |-> FALSE, opaque |-> FALSE, bbox |-> <<-180, -90, 180, 90>>,
        crs |-> SUPPORTED_CRS, styles |-> <<"default">>],
       [name |-> "data_layer", title |-> "Data Layer", abstract |-> "Sample data layer",
        queryable |-> TRUE, opaque |-> FALSE, bbox |-> <<-180, -90, 180, 90>>,
        crs |-> SUPPORTED_CRS, styles |-> <<"default", "highlight">>] >>

\* WMSService.get_capabilities: nothing in its try block raises for these literals.
WMSService_get_capabilities ==
    Ok([service |-> "WMS",
        version |-> OGCVersion_WMS_1_3_0,
        layers |-> WmsLayers,
        formats |-> SUPPORTED_WMS_FORMATS,
        crs |-> SUPPORTED_CRS,
        service_metadata |->
            [title |-> "ESDA Web Mapping WMS Service",
             abstract |-> "WMS service for geospatial data visualization",
             keywords |-> <<"WMS", "GIS", "Mapping">>,
             contact_information |-> ContactInformation,
             access_constraints |-> "None"]])

MapPlaceholder == "WMS GetMap response would be an image"

\* WMSService.get_map checking the format before the CRS.
GetMapBody_FormatFirst(request) ==
    IF ~InList(request.format, SUPPORTED_WMS_FORMATS)
    THEN Raise(OGCServiceException("InvalidFormat",
                                   <<"Unsupported format: ", request.format>>,
                                   Some("GetMap")))
    ELSE IF ~InList(request.crs, SUPPORTED_CRS)
    THEN Raise(OGCServiceException("InvalidCRS",
                                   <<"Unsupported CRS: ", request.crs>>, Some("GetMap")))
    ELSE LET bbox == parse_bbox_string(request.bbox)
         IN  IF ~bbox.ok THEN bbox ELSE Ok(MapPlaceholder)

\* The try body of WMSService.get_map.
GetMapBody(request) ==
    IF ~InList(request.crs, SUPPORTED_CRS)
    THEN Raise(OGCServiceException("InvalidCRS",
                                   <<"Unsupported CRS: ", request.crs>>, Some("GetMap")))
    ELSE IF ~InList(request.format, SUPPORTED_WMS_FORMATS)
    THEN Raise(OGCServiceException("InvalidFormat",
                                   <<"Unsupported format: ", request.format>>,
                                   Some("GetMap")))
    ELSE LET bbox == parse_bbox_string(request.bbox)
         IN  IF ~bbox.ok THEN bbox ELSE Ok(MapPlaceholder)

\* A service method without its `except Exception` clause.
ServiceExcept_NoCatchAll(result, operation) == result

\* The except clauses of a service method: an OGCServiceException is re-raised,
\* anything else becomes OperationProcessingFailed with the operation as locator.
ServiceExcept(result, operation) ==
    IF result.ok \/ result.exc.cls = "OGCServiceException" THEN result
    ELSE Raise(OGCServiceExceptionFrom(
                   "OperationProcessingFailed",
                   <<"Error processing ", operation, " request: ">> \o result.exc.msg,
                   Some(operation), Some(result.exc)))

WMSService_get_map(request) == ServiceExcept(GetMapBody(request), "GetMap")

PropertyDescriptor(name, type) == [name |-> name, type |-> type]

WfsFeatureTypes ==
    << [name |-> "points_of_interest", title |-> "Points of Interest",
        abstract |-> "Sample points of interest",
        keywords |-> <<"POI", "points", "locations">>,
        bbox |-> <<-180, -90, 180, 90>>, crs |-> SUPPORTED_CRS,
        properties |-> << PropertyDescriptor("id", "integer"),
                          PropertyDescriptor("name", "string"),
                          PropertyDescriptor("category", "string"),
                          PropertyDescriptor("description", "string") >>],
       [name |-> "boundaries", title |-> "Administrative Boundaries",
        abstract |-> "Sample administrative boundaries",
        keywords |-> <<"boundaries", "administrative", "regions">>,
        bbox |-> <<-180, -90, 180, 90>>, crs |-> SUPPORTED_CRS,
        properties |-> << PropertyDescriptor("id", "integer"),
                          PropertyDescriptor("name", "string"),
                          PropertyDescriptor("level", "integer"),
                          PropertyDescriptor("population", "integer") >>] >>

\* WFSService.get_capabilities: nothing in its try block raises for these literals.
WFSService_get_capabilities ==
    Ok([service |-> "WFS",
        version |-> OGCVersion_WFS_2_0_0,
        feature_types |-> WfsFeatureTypes,
        formats |-> SUPPORTED_WFS_FORMATS,
        crs |-> SUPPORTED_CRS,
        service_metadata |->
            [title |-> "ESDA Web Mapping WFS Service",
             abstract |-> "WFS service for geospatial data access",
             keywords |-> <<"WFS", "GIS", "Features">>,
             contact_information |-> ContactInformation,
             access_constraints |-> "None"]])

\* A Python dict literal {"type": ..., "coordinates": ...}.
GeometryDict(type, coordinates) ==
    [pyclass |-> "dict", type |-> type, coordinates |-> coordinates]

\* models/geojson_models.py GeoJSONGeometry: a pydantic model instance.
GeoJSONGeometry(type, coordinates) ==
    [pyclass |-> "GeoJSONGeometry", type |-> type, coordinates |-> coordinates]

\* models/geojson_models.py GeoJSONFeature: pydantic validates the geometry dict
\* into a GeoJSONGeometry instance.
GeoJSONFeature(geometry, properties) ==
    [type |-> "Feature",
     geometry |-> GeoJSONGeometry(geometry.type, geometry.coordinates),
     properties |-> properties]

GeoJSONFeatureCollection(features) ==
    [type |-> "FeatureCollection", features |-> features]

\* Python obj[key]: a dict is subscriptable, a pydantic BaseModel instance is not
\* (BaseModel defines no __getitem__) and raises TypeError.
Subscript(obj, key) ==
    IF obj.pyclass = "dict"
    THEN Ok(obj[key])
    ELSE Raise([cls |-> "TypeError",
                msg |-> <<"'", obj.pyclass, "' object is not subscriptable">>])

\* Coordinates are in millionths of a degree.
PointsOfInterestFeatures ==
    << GeoJSONFeature(GeometryDict("Point", <<-73985428, 40748817>>),
                      [id |-> 1, name |-> "Empire State Building",
                       category |-> "landmark",
                       description |-> "Famous skyscraper in New York City"]),
       GeoJSONFeature(GeometryDict("Point", <<-74013961, 40704543>>),
                      [id |-> 2, name |-> "Statue of Liberty",
                       category |-> "landmark",
                       description |-> "Famous statue in New York Harbor"]) >>

BoundariesFeatures ==
    << GeoJSONFeature(
           GeometryDict("Polygon",
                        << << <<-74025900, 40712700>>, <<-73939700, 40712700>>,
                              <<-73939700, 40790300>>, <<-74025900, 40790300>>,
                              <<-74025900, 40712700>> >> >>),
           [id |-> 1, name |-> "Manhattan", level |-> 2, population |-> 1628706]) >>

\* The sample features: `"<name>" in request.type_names` is a substring test on
\* the whole parameter string.
SampleFeatures(type_names) ==
    (IF IsSubstring(<<"points_of_interest">>, type_names)
     THEN PointsOfInterestFeatures ELSE <<>>)
    \o (IF IsSubstring(<<"boundaries">>, type_names)
        THEN BoundariesFeatures ELSE <<>>)

\* The bbox filter loop of WFSService.get_feature.
RECURSIVE BBoxFilter(_, _)
BBoxFilter(features, bbox) ==
    IF Len(features) = 0 THEN Ok(<<>>)
    ELSE LET feature == Head(features)
             geom == feature.geometry
             type == Subscript(geom, "type")
         IN  IF ~type.ok THEN type
             ELSE LET coords == Subscript(geom, "coordinates")
                      keep == IF type.v = "Point"
                              THEN /\ bbox[1] <= coords.v[1] /\ coords.v[1] <= bbox[3]
                                   /\ bbox[2] <= coords.v[2] /\ coords.v[2] <= bbox[4]
                              ELSE TRUE
                      rest == BBoxFilter(Tail(features), bbox)
                  IN  IF type.v = "Point" /\ ~coords.ok THEN coords
                      ELSE IF ~rest.ok THEN rest
                      ELSE Ok((IF keep THEN <<feature>> ELSE <<>>) \o rest.v)

\* Python features[:count], count possibly negative.
SlicePrefix(features, count) ==
    LET n == Len(features)
        stop == IF count >= 0 THEN (IF count < n THEN count ELSE n)
                ELSE (IF n + count > 0 THEN n + count ELSE 0)
    IN  SubSeq(features, 1, stop)

\* `if request.count and len(features) > request.count: features = features[:count]`
CountLimit(features, count) ==
    IF TruthyInt(count) /\ Len(features) > Val(count)
    THEN SlicePrefix(features, Val(count))
    ELSE features

\* The try body of WFSService.get_feature.
GetFeatureBody(request) ==
    IF TruthyStr(request.crs) /\ ~InList(Val(request.crs), SUPPORTED_CRS)
    THEN Raise(OGCServiceException("InvalidCRS",
                                   <<"Unsupported CRS: ", Val(request.crs)>>,
                                   Some("GetFeature")))
    ELSE IF ~InList(request.output_format, SUPPORTED_WFS_FORMATS)
    THEN Raise(OGCServiceException("InvalidFormat",
                                   <<"Unsupported format: ", request.output_format>>,
                                   Some("GetFeature")))
    ELSE LET bbox == IF TruthySeq(request.bbox)
                     THEN parse_bbox_string(Val(request.bbox))
                     ELSE Ok(None)
         IN  IF ~bbox.ok THEN bbox
             ELSE LET features == SampleFeatures(request.type_names)
                      filtered == IF Len(bbox.v) > 0
                                  THEN BBoxFilter(features, bbox.v)
                                  ELSE Ok(features)
                  IN  IF ~filtered.ok THEN filtered
                      ELSE Ok(GeoJSONFeatureCollection(
                                  CountLimit(filtered.v, request.count)))

WFSService_get_feature(request) == ServiceExcept(GetFeatureBody(request), "GetFeature")

\* ---------------------------------------------------------------- formatters

\* utils/ogc_xml_formatter.py prettify_xml: the serialized document.
prettify_xml(elem) == [enc |-> "xml", doc |-> elem]

\* format_wms_capabilities_xml writing the version of the other service.
format_wms_capabilities_xml_WfsVersion(capabilities) ==
    prettify_xml([root |-> "WMS_Capabilities",
                  attrs |-> [version |-> OGCVersion_WFS_2_0_0,
                             xmlns |-> "http://www.opengis.net/wms"],
                  capabilities |-> capabilities])

format_wms_capabilities_xml(capabilities) ==
    prettify_xml([root |-> "WMS_Capabilities",
                  attrs |-> [version |-> capabilities.version,
                             xmlns |-> "http://www.opengis.net/wms"],
                  capabilities |-> capabilities])

\* The FeatureType element with every CRS of the list written as OtherCRS.
FeatureTypeElement_AllAsOther(feature_type) ==
    [tag |-> "FeatureType",
     name |-> feature_type.name,
     default_crs |-> IF Len(feature_type.crs) > 0 THEN feature_type.crs[1]
                     ELSE "EPSG:4326",
     other_crs |-> feature_type.crs]

\* The FeatureType element of format_wfs_capabilities_xml: DefaultCRS is
\* crs[0], or "EPSG:4326" for an empty list; one OtherCRS per item of crs[1:].
FeatureTypeElement(feature_type) ==
    [tag |-> "FeatureType",
     name |-> feature_type.name,
     default_crs |-> IF Len(feature_type.crs) > 0 THEN feature_type.crs[1]
                     ELSE "EPSG:4326",
     other_crs |-> SubSeq(feature_type.crs, 2, Len(feature_type.crs))]

format_wfs_capabilities_xml(capabilities) ==
    prettify_xml([root |-> "WFS_Capabilities",
                  attrs |-> [version |-> capabilities.version,
                             xmlns |-> "http://www.opengis.net/wfs/2.0"],
                  feature_type_list |->
                      [i \in 1..Len(capabilities.feature_types)
                           |-> FeatureTypeElement(capabilities.feature_types[i])],
                  capabilities |-> capabilities])

\* format_ogc_exception_xml without its `if locator:` branch.
format_ogc_exception_xml_NoLocator(exception_code, exception_text, locator) ==
    prettify_xml(
        [root |-> "ServiceExceptionReport",
         attrs |-> [version |-> "1.3.0", xmlns |-> "http://www.opengis.net/ogc"],
         children |->
             << [tag |-> "ServiceException",
                 attrs |-> [code |-> exception_code],
                 text |-> exception_text] >>])

\* format_ogc_exception_xml: one ServiceException in a ServiceExceptionReport;
\* `if locator:` sets the locator attribute.
format_ogc_exception_xml(exception_code, exception_text, locator) ==
    prettify_xml(
        [root |-> "ServiceExceptionReport",
         attrs |-> [version |-> "1.3.0", xmlns |-> "http://www.opengis.net/ogc"],
         children |->
             << [tag |-> "ServiceException",
                 attrs |-> IF TruthyStr(locator)
                           THEN [code |-> exception_code, locator |-> Val(locator)]
                           ELSE [code |-> exception_code],
                 text |-> exception_text] >>])

\* models/ogc_models.py OGCException(...).dict()
OGCException(exception_code, exception_text, locator) ==
    [exception_code |-> exception_code, exception_text |-> exception_text,
     locator |-> locator]

\* ----------------------------------------------------------------- responses

\* fastapi Response(content=..., status_code=..., media_type=...)
Response(content, status_code, media_type) ==
    [status |-> status_code, media_type |-> media_type, body |-> content]

\* fastapi JSONResponse(status_code=..., content=...)
JSONResponse(status_code, content) ==
    [status |-> status_code, media_type |-> "application/json",
     body |-> [enc |-> "json", doc |-> content]]

\* fastapi StreamingResponse(io.BytesIO(data), media_type=...)
StreamingResponse(data, media_type) ==
    [status |-> 200, media_type |-> media_type,
     body |-> [enc |-> "bytes", doc |-> data]]

\* ----------------------------------------------------------------- endpoints

InvalidService(service) ==
    Raise(OGCServiceException("InvalidParameterValue",
                              <<"Invalid service: ", service>>, Some("service")))

\* The request-name check raising without a locator (the constructor default).
InvalidRequest_NoLocator(request_type) ==
    Raise(OGCServiceException("InvalidParameterValue",
                              <<"Invalid request: ", request_type>>, None))

InvalidRequest(request_type) ==
    Raise(OGCServiceException("InvalidParameterValue",
                              <<"Invalid request: ", request_type>>, Some("request")))

\* wants_xml computed by the test of the except clauses (no application/xml test).
WantsXml_NoXmlTest(accept) ==
    ~(TruthySeq(accept) /\ IsSubstring(<<"application/json">>, Val(accept)))

\* wants_xml of the GetCapabilities endpoints.
WantsXml(accept) ==
    ~(/\ TruthySeq(accept)
      /\ IsSubstring(<<"application/json">>, Val(accept))
      /\ ~IsSubstring(<<"application/xml">>, Val(accept)))

\* `if accept and "application/json" in accept` of the except clauses.
ExceptionWantsJson(accept) ==
    TruthySeq(accept) /\ IsSubstring(<<"application/json">>, Val(accept))

\* except OGCServiceException of the GetCapabilities endpoints.
CapabilitiesOGCExcept(e, accept) ==
    IF ExceptionWantsJson(accept)
    THEN JSONResponse(400, OGCException(e.exception_code, e.exception_text, e.locator))
    ELSE Response(format_ogc_exception_xml(e.exception_code, e.exception_text, e.locator),
                  400, "application/xml")

\* except Exception of the GetCapabilities endpoints.
CapabilitiesUnexpectedExcept(e, accept) ==
    IF ExceptionWantsJson(accept)
    THEN JSONResponse(500, OGCException("NoApplicableCode",
                                        <<"Unexpected error: ">> \o e.msg,
                                        Some("GetCapabilities")))
    ELSE Response(format_ogc_exception_xml("NoApplicableCode",
                                           <<"Unexpected error: ">> \o e.msg,
                                           Some("GetCapabilities")),
                  500, "application/xml")

CapabilitiesExcept(result, accept) ==
    IF result.ok THEN result.v
    ELSE IF result.exc.cls = "OGCServiceException"
    THEN CapabilitiesOGCExcept(result.exc, accept)
    ELSE CapabilitiesUnexpectedExcept(result.exc, accept)

\* except OGCServiceException of wms_get_map and wfs_get_feature.
OperationOGCExcept(e) ==
    JSONResponse(400, OGCException(e.exception_code, e.exception_text, e.locator))

\* except Exception of wms_get_map and wfs_get_feature.
OperationUnexpectedExcept(e, operation) ==
    JSONResponse(500, OGCException("NoApplicableCode",
                                   <<"Unexpected error: ">> \o e.msg, Some(operation)))

OperationExcept(result, operation) ==
    IF result.ok THEN result.v
    ELSE IF result.exc.cls = "OGCServiceException"
    THEN OperationOGCExcept(result.exc)
    ELSE OperationUnexpectedExcept(result.exc, operation)

\* GET /wms
try_wms_get_capabilities(r) ==
    IF r.service # OGCServiceType_WMS THEN InvalidService(r.service)
    ELSE IF r.request_type # "GetCapabilities" THEN InvalidRequest(r.request_type)
    ELSE LET capabilities == WMSService_get_capabilities
         IN  IF ~capabilities.ok THEN capabilities
             ELSE IF WantsXml(r.accept)
             THEN Ok(Response(format_wms_capabilities_xml(capabilities.v),
                              200, "application/xml"))
             ELSE Ok(JSONResponse(200, capabilities.v))

wms_get_capabilities(r) == CapabilitiesExcept(try_wms_get_capabilities(r), r.accept)

\* models/ogc_models.py WMSGetMapRequest
WMSGetMapRequest(r) ==
    [service |-> r.service, version |-> r.version, layers |-> r.layers,
     styles |-> r.styles, crs |-> r.crs, bbox |-> r.bbox, width |-> r.width,
     height |-> r.height, format |-> r.format, transparent |-> r.transparent]

\* wms_get_map checking the request name before the service.
try_wms_get_map_RequestFirst(r) ==
    IF r.request_type # "GetMap" THEN InvalidRequest(r.request_type)
    ELSE IF r.service # OGCServiceType_WMS THEN InvalidService(r.service)
    ELSE LET get_map_request == WMSGetMapRequest(r)
             image_data == WMSService_get_map(get_map_request)
         IN  IF ~image_data.ok THEN image_data
             ELSE Ok(StreamingResponse(image_data.v, r.format))

\* wms_get_map answering every map with the media type image/png.
try_wms_get_map_PngAlways(r) ==
    IF r.service # OGCServiceType_WMS THEN InvalidService(r.service)
    ELSE IF r.request_type # "GetMap" THEN InvalidRequest(r.request_type)
    ELSE LET get_map_request == WMSGetMapRequest(r)
             image_data == WMSService_get_map(get_map_request)
         IN  IF ~image_data.ok THEN image_data
             ELSE Ok(StreamingResponse(image_data.v, "image/png"))

\* GET /wms/map
try_wms_get_map(r) ==
    IF r.service # OGCServiceType_WMS THEN InvalidService(r.service)
    ELSE IF r.request_type # "GetMap" THEN InvalidRequest(r.request_type)
    ELSE LET get_map_request == WMSGetMapRequest(r)
             image_data == WMSService_get_map(get_map_request)
         IN  IF ~image_data.ok THEN image_data
             ELSE Ok(StreamingResponse(image_data.v, r.format))

wms_get_map(r) == OperationExcept(try_wms_get_map(r), "GetMap")

\* GET /wfs
try_wfs_get_capabilities(r) ==
    IF r.service # OGCServiceType_WFS THEN InvalidService(r.service)
    ELSE IF r.request_type # "GetCapabilities" THEN InvalidRequest(r.request_type)
    ELSE LET capabilities == WFSService_get_capabilities
         IN  IF ~capabilities.ok THEN capabilities
             ELSE IF WantsXml(r.accept)
             THEN Ok(Response(format_wfs_capabilities_xml(capabilities.v),
                              200, "application/xml"))
             ELSE Ok(JSONResponse(200, capabilities.v))

wfs_get_capabilities(r) == CapabilitiesExcept(try_wfs_get_capabilities(r), r.accept)

\* models/ogc_models.py WFSGetFeatureRequest
WFSGetFeatureRequest(r) ==
    [service |-> r.service, version |-> r.version, type_names |-> r.type_names,
     count |-> r.count, bbox |-> r.bbox, crs |-> r.crs,
     output_format |-> r.output_format]

\* GET /wfs/feature: both branches on output_format return feature_collection.dict().
try_wfs_get_feature(r) ==
    IF r.service # OGCServiceType_WFS THEN InvalidService(r.service)
    ELSE IF r.request_type # "GetFeature" THEN InvalidRequest(r.request_type)
    ELSE LET get_feature_request == WFSGetFeatureRequest(r)
             feature_collection == WFSService_get_feature(get_feature_request)
         IN  IF ~feature_collection.ok THEN feature_collection
             ELSE Ok(JSONResponse(200, feature_collection.v))

wfs_get_feature(r) == OperationExcept(try_wfs_get_feature(r), "GetFeature")

\* ------------------------------------------------------------ request inputs
\* Query parameters and the Accept header as the handlers receive them.  FastAPI
\* answers a request with a missing required parameter or a non-integer width,
\* height or count with 422 before the handler runs; such requests are not
\* requests of the model.  version and transparent are read by no code path and
\* keep their defaults.

Services == {"WMS", "WFS"}

RequestTypes == {"GetCapabilities", "GetMap", "GetFeature"}

AcceptAtoms == {"application/json", "application/xml", "text/html"}

\* Accept header values: the atoms in any order, none repeated, "" included.
AcceptStrings ==
    UNION { { a \in [1..n -> AcceptAtoms] : \A i, j \in 1..n : a[i] = a[j] => i = j }
            : n \in 0..MaxAcceptLen }

AcceptHeaders == {None} \cup { Some(a) : a \in AcceptStrings }

LayersInputs ==
    { <<"basemap">>, <<"basemap", ",", "data_layer">>, <<"basemap", ",", "no_such_layer">> }

StylesInputs == { <<>>, <<"default">> }

MapCrsInputs == {"EPSG:4326", "EPSG:9999"}

FormatInputs == {"image/png", "image/jpeg", "application/json", "image/bmp"}

WidthInputs == {0, 256}

HeightInputs == {-1, 256}

BBoxInputs ==
    { <<"1", ",", "1", ",", "2", ",", "2">>,
      <<"2", ",", "2", ",", "1", ",", "1">>,
      <<"-", "7", "4", ".", "1", ",", "4", "0", ".", "7", ",",
        "-", "7", "3", ".", "9", ",", "4", "0", ".", "8">>,
      <<"1", ",", "1", ",", "2">>,
      <<"1", ",", "1", ",", "2", ",", "2", ",", "2">>,
      <<"1", ",", "x", ",", "2", ",", "2">>,
      <<>> }

TypeNamesInputs ==
    { <<"points_of_interest">>, <<"boundaries", ",", "points_of_interest">>,
      <<"no_such_type">>, <<"my_", "boundaries", "_v2">> }

CountInputs == { None, Some(0), Some(-1), Some(1) }

FeatureCrsInputs == { None, Some(""), Some("EPSG:4326"), Some("EPSG:9999") }

OptionalBBoxInputs == {None} \cup { Some(b) : b \in BBoxInputs }

\* The exception a try block ended with, as an Optional.
Raised(result) == IF result.ok THEN None ELSE Some(result.exc)

NoRequest == [endpoint |-> "none"]

NoResponse == [status |-> 0]

\* ------------------------------------------------------------------- actions

Init ==
    /\ SUPPORTED_CRS = SupportedCrsList
    /\ SUPPORTED_WMS_FORMATS = SupportedWmsFormatList
    /\ SUPPORTED_WFS_FORMATS = SupportedWfsFormatList
    /\ LimiterAsConstructed
    /\ phase = "idle"
    /\ req = NoRequest
    /\ resp = NoResponse
    /\ raised = None

WmsGetCapabilities ==
    /\ phase = "idle"
    /\ \E service \in Services, request_type \in RequestTypes, accept \in AcceptHeaders :
           LET r == [endpoint |-> "/wms", operation |-> "GetCapabilities",
                     service |-> service, request_type |-> request_type,
                     accept |-> accept]
           IN  /\ req' = r
               /\ resp' = wms_get_capabilities(r)
               /\ raised' = Raised(try_wms_get_capabilities(r))
    /\ phase' = "done"
    /\ UNCHANGED <<registries, limiter>>

WmsGetMap ==
    /\ phase = "idle"
    /\ \E service \in Services, request_type \in RequestTypes, accept \in AcceptHeaders,
          layers \in LayersInputs, styles \in StylesInputs, crs \in MapCrsInputs,
          bbox \in BBoxInputs, width \in WidthInputs, height \in HeightInputs,
          format \in FormatInputs :
           LET r == [endpoint |-> "/wms/map", operation |-> "GetMap",
                     service |-> service, request_type |-> request_type,
                     accept |-> accept, version |-> "1.3.0", layers |-> layers,
                     styles |-> styles, crs |-> crs, bbox |-> bbox, width |-> width,
                     height |-> height, format |-> format, transparent |-> FALSE]
           IN  /\ req' = r
               /\ resp' = wms_get_map(r)
               /\ raised' = Raised(try_wms_get_map(r))
    /\ phase' = "done"
    /\ UNCHANGED <<registries, limiter>>

WfsGetCapabilities ==
    /\ phase = "idle"
    /\ \E service \in Services, request_type \in RequestTypes, accept \in AcceptHeaders :
           LET r == [endpoint |-> "/wfs", operation |-> "GetCapabilities",
                     service |-> service, request_type |-> request_type,
                     accept |-> accept]
           IN  /\ req' = r
               /\ resp' = wfs_get_capabilities(r)
               /\ raised' = Raised(try_wfs_get_capabilities(r))
    /\ phase' = "done"
    /\ UNCHANGED <<registries, limiter>>

WfsGetFeature ==
    /\ phase = "idle"
    /\ \E service \in Services, request_type \in RequestTypes, accept \in AcceptHeaders,
          type_names \in TypeNamesInputs, count \in CountInputs,
          bbox \in OptionalBBoxInputs, crs \in FeatureCrsInputs,
          output_format \in FormatInputs :
           LET r == [endpoint |-> "/wfs/feature", operation |-> "GetFeature",
                     service |-> service, request_type |-> request_type,
                     accept |-> accept, version |-> "2.0.0",
                     type_names |-> type_names, count |-> count, bbox |-> bbox,
                     crs |-> crs, output_format |-> output_format]
           IN  /\ req' = r
               /\ resp' = wfs_get_feature(r)
               /\ raised' = Raised(try_wfs_get_feature(r))
    /\ phase' = "done"
    /\ UNCHANGED <<registries, limiter>>

\* The response is sent; request and response objects are discarded.
Respond ==
    /\ phase = "done"
    /\ phase' = "idle"
    /\ req' = NoRequest
    /\ resp' = NoResponse
    /\ raised' = None
    /\ UNCHANGED <<registries, limiter>>

Next ==
    \/ WmsGetCapabilities
    \/ WmsGetMap
    \/ WfsGetCapabilities
    \/ WfsGetFeature
    \/ Respond

Spec == Init /\ [][Next]_vars

\* ------------------------------------------------------- exception documents
\* The `except OGCServiceException as e` clause of a GetCapabilities endpoint,
\* run on one exception for a client that asks for XML and for a client that
\* asks for JSON.

\* The codes of the raise sites and except clauses.
ExceptionCodes ==
    {"InvalidParameterValue", "InvalidCRS", "InvalidFormat", "InvalidGeometry",
     "OperationNotSupported", "OperationProcessingFailed", "NoApplicableCode"}

\* Texts the raise sites build (an f-string prefix and the value put into it).
ExceptionTexts ==
    { <<"Invalid service: ", "WFS">>,
      <<"Unsupported CRS: ", "EPSG:9999">>,
      <<"Error generating capabilities: ", "boom">> }

\* Locators: the default of OGCServiceException (None) and the literals the
\* raise sites pass.
LocatorInputs ==
    {None} \cup { Some(l) : l \in {"service", "request", "GetCapabilities",
                                  "GetMap", "GetFeature"} }

InitException ==
    /\ SUPPORTED_CRS = SupportedCrsList
    /\ SUPPORTED_WMS_FORMATS = SupportedWmsFormatList
    /\ SUPPORTED_WFS_FORMATS = SupportedWfsFormatList
    /\ LimiterAsConstructed
    /\ phase = "raised"
    /\ req = NoRequest
    /\ resp = NoResponse
    /\ \E code \in ExceptionCodes, text \in ExceptionTexts, locator \in LocatorInputs :
           raised = Some(OGCServiceException(code, text, locator))

FormatException ==
    /\ phase = "raised"
    /\ resp' = [xml |-> CapabilitiesOGCExcept(Val(raised), None),
                json |-> CapabilitiesOGCExcept(Val(raised), Some(<<"application/json">>))]
    /\ phase' = "formatted"
    /\ UNCHANGED <<req, raised, registries, limiter>>

NextException == FormatException

SpecException == InitException /\ [][NextException]_vars

\* -------------------------------------------------- coordinate transformation
\* CoordinateTransformer and the library calls it makes.  The libraries are
\* modelled by what the transformer can observe of them: which calls raise,
\* and whether the coordinates that come back are the ones that went in.

\* CRS identifiers the projection library resolves.
LibraryCrs == {"EPSG:4326", "EPSG:3857"}

\* pyproj.Transformer.from_crs(source_crs, target_crs, always_xy=True) and the
\* CRS arguments of GeoDataFrame(crs=...) / to_crs(...): an identifier the
\* library does not resolve raises CRSError.
from_crs(source_crs, target_crs) ==
    IF source_crs \notin LibraryCrs
    THEN Raise([cls |-> "CRSError", msg |-> <<"Invalid projection: ", source_crs>>])
    ELSE IF target_crs \notin LibraryCrs
    THEN Raise([cls |-> "CRSError", msg |-> <<"Invalid projection: ", target_crs>>])
    ELSE Ok([source_crs |-> source_crs, target_crs |-> target_crs])

\* transformer.transform(x, y): no operation between identical CRS (also for
\* coordinates outside the area of use); between different CRS some other
\* pair, written here as a linear stand-in for the projection.
transform(transformer, xy) ==
    IF transformer.source_crs = transformer.target_crs THEN xy
    ELSE <<xy[1] * 2 + 1, xy[2] * 2 + 1>>

\* `minx, miny, maxx, maxy = bbox`
UnpackFour(bbox) ==
    IF Len(bbox) = 4 THEN Ok(bbox)
    ELSE IF Len(bbox) < 4
    THEN Raise([cls |-> "ValueError",
                msg |-> <<"not enough values to unpack (expected 4)">>])
    ELSE Raise([cls |-> "ValueError",
                msg |-> <<"too many values to unpack (expected 4)">>])

\* The try body of CoordinateTransformer.transform_bbox.
TransformBBoxBody(bbox, source_crs, target_crs) ==
    LET transformer == from_crs(source_crs, target_crs)
        corners == UnpackFour(bbox)
    IN  IF ~transformer.ok THEN transformer
        ELSE IF ~corners.ok THEN corners
        ELSE LET ll == transform(transformer.v, <<bbox[1], bbox[2]>>)
                 ur == transform(transformer.v, <<bbox[3], bbox[4]>>)
             IN  Ok(<<ll[1], ll[2], ur[1], ur[2]>>)

\* CoordinateTransformer.transform_bbox: `except Exception` re-raises every
\* failure as InvalidCRS at locator "transform_bbox".
transform_bbox(bbox, source_crs, target_crs) ==
    LET result == TransformBBoxBody(bbox, source_crs, target_crs)
    IN  IF result.ok THEN result
        ELSE Raise(OGCServiceExceptionFrom(
                       "InvalidCRS",
                       <<"Error transforming coordinates: ">> \o result.exc.msg,
                       Some("transform_bbox"), Some(result.exc)))

\* A Python list and a Python tuple: the two never compare equal, whatever
\* their items.
PyList(items) == [pyclass |-> "list", items |-> items]

PyTuple(items) == [pyclass |-> "tuple", items |-> items]

\* shapely.geometry.shape(geometry): a dict with a known type and coordinates
\* becomes a geometry object holding the bare coordinate pairs; anything else
\* raises.
shape(geometry) ==
    IF geometry.type = "Point" /\ Len(geometry.coordinates.items) > 0
    THEN Ok([type |-> "Point", coords |-> geometry.coordinates.items])
    ELSE IF geometry.type = "Polygon" /\ Len(geometry.coordinates.items) > 0
    THEN Ok([type |-> "Polygon",
             coords |-> [r \in 1..Len(geometry.coordinates.items) |->
                 [i \in 1..Len(geometry.coordinates.items[r].items) |->
                     geometry.coordinates.items[r].items[i].items]]])
    ELSE Raise([cls |-> "GeometryTypeError",
                msg |-> <<"Unknown geometry type: ", geometry.type>>])

\* gdf.to_crs(target_crs) on the coordinates of one geometry.
Reproject(transformer, geom) ==
    [type |-> geom.type,
     coords |-> IF geom.type = "Point"
                THEN transform(transformer, geom.coords)
                ELSE [r \in 1..Len(geom.coords) |->
                         [i \in 1..Len(geom.coords[r]) |->
                             transform(transformer, geom.coords[r][i])]]]

\* shapely.geometry.mapping(geom): the GeoJSON-like dict of a geometry, whose
\* coordinates are a tuple (a point) or a tuple of rings of tuples (a polygon).
mapping(geom) ==
    GeometryDict(geom.type,
        IF geom.type = "Point" THEN PyTuple(geom.coords)
        ELSE PyTuple([r \in 1..Len(geom.coords) |->
                 PyTuple([i \in 1..Len(geom.coords[r]) |->
                     PyTuple(geom.coords[r][i])])]))

\* The try body of CoordinateTransformer.transform_geometry.
TransformGeometryBody(geometry, source_crs, target_crs) ==
    LET shp_geom == shape(geometry)
        transformer == from_crs(source_crs, target_crs)
    IN  IF ~shp_geom.ok THEN shp_geom
        ELSE IF ~transformer.ok THEN transformer
        ELSE Ok(mapping(Reproject(transformer.v, shp_geom.v)))

\* transform_geometry raising what transform_bbox raises.
transform_geometry_AsBBox(geometry, source_crs, target_crs) ==
    LET result == TransformGeometryBody(geometry, source_crs, target_crs)
    IN  IF result.ok THEN result
        ELSE Raise(OGCServiceExceptionFrom(
                       "InvalidCRS",
                       <<"Error transforming coordinates: ">> \o result.exc.msg,
                       Some("transform_bbox"), Some(result.exc)))

\* CoordinateTransformer.transform_geometry: `except Exception` re-raises every
\* failure as InvalidGeometry at locator "transform_geometry".
transform_geometry(geometry, source_crs, target_crs) ==
    LET result == TransformGeometryBody(geometry, source_crs, target_crs)
    IN  IF result.ok THEN result
        ELSE Raise(OGCServiceExceptionFrom(
                       "InvalidGeometry",
                       <<"Error transforming geometry: ">> \o result.exc.msg,
                       Some("transform_geometry"), Some(result.exc)))

\* CRS arguments: two the library resolves and one it does not.
TransformCrsInputs == {"EPSG:4326", "EPSG:3857", "EPSG:999999"}

\* bbox arguments, in millionths: a bbox, one far outside any area of use, a
\* degenerate one, and a list of three values.
TransformBBoxInputs ==
    { <<-74100000, 40700000, -73900000, 40800000>>,
      <<-999000000, -999000000, 999000000, 999000000>>,
      <<0, 0, 0, 0>>,
      <<1000000, 2000000, 3000000>> }

\* geometry arguments as parsed from JSON (coordinates are lists): a point, a
\* point far outside any area of use, a polygon, and a dict that is no GeoJSON
\* geometry.
TransformGeometryInputs ==
    { GeometryDict("Point", PyList(<<-73985428, 40748817>>)),
      GeometryDict("Point", PyList(<<999000000, -999000000>>)),
      GeometryDict("Polygon",
          PyList(<< PyList(<< PyList(<<0, 0>>), PyList(<<1000000, 0>>),
                             PyList(<<1000000, 1000000>>), PyList(<<0, 0>>) >>) >>)),
      GeometryDict("Blob", PyList(<<>>)) }

InitTransform ==
    /\ SUPPORTED_CRS = SupportedCrsList
    /\ SUPPORTED_WMS_FORMATS = SupportedWmsFormatList
    /\ SUPPORTED_WFS_FORMATS = SupportedWfsFormatList
    /\ LimiterAsConstructed
    /\ phase = "called"
    /\ \E source_crs \in TransformCrsInputs, target_crs \in TransformCrsInputs :
           \/ \E bbox \in TransformBBoxInputs :
                  req = [operation |-> "transform_bbox", input |-> bbox,
                         source_crs |-> source_crs, target_crs |-> target_crs]
           \/ \E geometry \in TransformGeometryInputs :
                  req = [operation |-> "transform_geometry", input |-> geometry,
                         source_crs |-> source_crs, target_crs |-> target_crs]
    /\ resp = NoResponse
    /\ raised = None

TransformBBox ==
    /\ phase = "called" /\ req.operation = "transform_bbox"
    /\ resp' = transform_bbox(req.input, req.source_crs, req.target_crs)
    /\ raised' = Raised(resp')
    /\ phase' = "returned"
    /\ UNCHANGED <<req, registries, limiter>>

TransformGeometry ==
    /\ phase = "called" /\ req.operation = "transform_geometry"
    /\ resp' = transform_geometry(req.input, req.source_crs, req.target_crs)
    /\ raised' = Raised(resp')
    /\ phase' = "returned"
    /\ UNCHANGED <<req, registries, limiter>>

NextTransform == TransformBBox \/ TransformGeometry

SpecTransform == InitTransform /\ [][NextTransform]_vars

\* ------------------------------------------------- feature type descriptions
\* format_wfs_capabilities_xml applied to a capabilities model with one feature
\* type, for the CRS lists a feature type can carry.

\* Longest CRS list of a feature type.
MaxCrsLen == 3

\* The CRS lists: any items of the supported list, in any order, repeats and
\* the empty list included.
CrsLists ==
    UNION { [1..n -> {SupportedCrsList[i] : i \in 1..Len(SupportedCrsList)}]
            : n \in 0..MaxCrsLen }

InitFeatureType ==
    /\ SUPPORTED_CRS = SupportedCrsList
    /\ SUPPORTED_WMS_FORMATS = SupportedWmsFormatList
    /\ SUPPORTED_WFS_FORMATS = SupportedWfsFormatList
    /\ LimiterAsConstructed
    /\ phase = "described"
    /\ \E crs \in CrsLists :
           req = [WFSService_get_capabilities.v EXCEPT
                      !.feature_types = <<[WfsFeatureTypes[1] EXCEPT !.crs = crs]>>]
    /\ resp = NoResponse
    /\ raised = None

FormatFeatureType ==
    /\ phase = "described"
    /\ resp' = Response(format_wfs_capabilities_xml(req), 200, "application/xml")
    /\ phase' = "formatted"
    /\ UNCHANGED <<req, raised, registries, limiter>>

NextFeatureType == FormatFeatureType

SpecFeatureType == InitFeatureType /\ [][NextFeatureType]_vars

\* ------------------------------------------------------------- bbox strings
\* parse_bbox_string applied to the string "min_lon,min_lat,max_lon,max_lat"
\* that Python writes for four floats.

DigitChar(d) ==
    CASE d = 0 -> "0" [] d = 1 -> "1" [] d = 2 -> "2" [] d = 3 -> "3"
      [] d = 4 -> "4" [] d = 5 -> "5" [] d = 6 -> "6" [] d = 7 -> "7"
      [] d = 8 -> "8" [] d = 9 -> "9"

\* The decimal digits of the natural number n.
RECURSIVE DigitsOf(_)
DigitsOf(n) ==
    IF n < 10 THEN <<DigitChar(n)>>
    ELSE DigitsOf(n \div 10) \o <<DigitChar(n % 10)>>

\* ds without its trailing "0" characters.
RECURSIVE StripZeros(_)
StripZeros(ds) ==
    IF Len(ds) > 0 /\ ds[Len(ds)] = "0" THEN StripZeros(SubSeq(ds, 1, Len(ds) - 1))
    ELSE ds

\* ds padded with "0" on the left to n characters.
RECURSIVE PadLeft(_, _)
PadLeft(ds, n) == IF Len(ds) >= n THEN ds ELSE PadLeft(<<"0">> \o ds, n)

\* Python str(x) of the float x given in millionths: the shortest decimal
\* that reads back as x, "d.d" with at least one fraction digit, and the
\* exponent form "d[.d]e-0N" below 0.0001.
FormatFloat(x) ==
    LET sign == IF x < 0 THEN <<"-">> ELSE <<>>
        m == IF x < 0 THEN 0 - x ELSE x
        frac == StripZeros(PadLeft(DigitsOf(m % 1000000), 6))
        sig == StripZeros(DigitsOf(m))
        exp10 == 7 - Len(DigitsOf(m))
    IN  IF m >= 100 \/ m = 0
        THEN sign \o DigitsOf(m \div 1000000) \o <<".">>
                  \o (IF Len(frac) = 0 THEN <<"0">> ELSE frac)
        ELSE sign \o <<sig[1]>>
                  \o (IF Len(sig) > 1 THEN <<".">> \o SubSeq(sig, 2, Len(sig)) ELSE <<>>)
                  \o <<"e", "-", "0", DigitChar(exp10)>>

\* ",".join(str(x) for x in bbox)
JoinBBox(bbox) ==
    FormatFloat(bbox[1]) \o <<",">> \o FormatFloat(bbox[2]) \o <<",">>
        \o FormatFloat(bbox[3]) \o <<",">> \o FormatFloat(bbox[4])

\* Coordinates, in millionths: -180.0, -74.1, -1.5e-05, 0.0, 40.748817, 90.0.
BBoxValues == {-180000000, -74100000, -15, 0, 40748817, 90000000}

InitBBox ==
    /\ SUPPORTED_CRS = SupportedCrsList
    /\ SUPPORTED_WMS_FORMATS = SupportedWmsFormatList
    /\ SUPPORTED_WFS_FORMATS = SupportedWfsFormatList
    /\ LimiterAsConstructed
    /\ phase = "joined"
    /\ \E a, b, c, d \in BBoxValues : req = [bbox |-> <<a, b, c, d>>]
    /\ resp = NoResponse
    /\ raised = None

ParseBBox ==
    /\ phase = "joined"
    /\ resp' = parse_bbox_string(JoinBBox(req.bbox))
    /\ phase' = "parsed"
    /\ UNCHANGED <<req, raised, registries, limiter>>

NextBBox == ParseBBox

SpecBBox == InitBBox /\ [][NextBBox]_vars

\* -------------------------------------------------------- concurrent handling
\* Several requests in flight at once: each task of the event loop holds one
\* request (phase[t], req[t], resp[t], raised[t]).  A handler has no await that
\* suspends between its reads of the module-level lists (WMSService and
\* WFSService methods are coroutines without an inner await), so one handler
\* run is one step; tasks interleave between accepting, handling and sending.

\* Number of requests in flight at once.
MaxTasks == 2

Tasks == 1..MaxTasks

CapabilitiesRequest(endpoint, service, accept) ==
    [endpoint |-> endpoint, operation |-> "GetCapabilities", service |-> service,
     request_type |-> "GetCapabilities", accept |-> accept]

MapRequest(crs, bbox) ==
    [endpoint |-> "/wms/map", operation |-> "GetMap", service |-> "WMS",
     request_type |-> "GetMap", accept |-> None, version |-> "1.3.0",
     layers |-> <<"basemap">>, styles |-> <<>>, crs |-> crs, bbox |-> bbox,
     width |-> 256, height |-> 256, format |-> "image/png", transparent |-> FALSE]

FeatureRequest(type_names, count, crs) ==
    [endpoint |-> "/wfs/feature", operation |-> "GetFeature", service |-> "WFS",
     request_type |-> "GetFeature", accept |-> None, version |-> "2.0.0",
     type_names |-> type_names, count |-> count, bbox |-> None, crs |-> crs,
     output_format |-> "application/json"]

\* The requests that are handled concurrently.
ConcurrentRequests ==
    { CapabilitiesRequest(e, s, a) :
          e \in {"/wms", "/wfs"}, s \in {"WMS"},
          a \in {None, Some(<<"application/json">>)} }
    \cup { MapRequest(crs, bbox) :
               crs \in MapCrsInputs,
               bbox \in { <<"1", ",", "1", ",", "2", ",", "2">>,
                          <<"1", ",", "1", ",", "2">> } }
    \cup { FeatureRequest(t, c, crs) :
               t \in { <<"points_of_interest">>,
                       <<"boundaries", ",", "points_of_interest">> },
               c \in {None, Some(1)},
               crs \in {None, Some("EPSG:9999")} }

\* The handler the router calls for the path of r.
Handle(r) ==
    CASE r.endpoint = "/wms" -> wms_get_capabilities(r)
      [] r.endpoint = "/wms/map" -> wms_get_map(r)
      [] r.endpoint = "/wfs" -> wfs_get_capabilities(r)
      [] r.endpoint = "/wfs/feature" -> wfs_get_feature(r)

TryHandle(r) ==
    CASE r.endpoint = "/wms" -> try_wms_get_capabilities(r)
      [] r.endpoint = "/wms/map" -> try_wms_get_map(r)
      [] r.endpoint = "/wfs" -> try_wfs_get_capabilities(r)
      [] r.endpoint = "/wfs/feature" -> try_wfs_get_feature(r)

\* A handler that adds a CRS it was asked for and does not know to SUPPORTED_CRS.
RegistriesAfter_AppendCrs(r) ==
    IF r.endpoint = "/wms/map" /\ ~InList(r.crs, SUPPORTED_CRS)
    THEN <<Append(SUPPORTED_CRS, r.crs), SUPPORTED_WMS_FORMATS, SUPPORTED_WFS_FORMATS>>
    ELSE <<SUPPORTED_CRS, SUPPORTED_WMS_FORMATS, SUPPORTED_WFS_FORMATS>>

\* get_capabilities sorting the format list it reports in place.
RegistriesAfter_SortFormats(r) ==
    IF r.endpoint = "/wms"
    THEN <<SUPPORTED_CRS, <<"image/gif", "image/jpeg", "image/png", "image/tiff">>,
           SUPPORTED_WFS_FORMATS>>
    ELSE <<SUPPORTED_CRS, SUPPORTED_WMS_FORMATS, SUPPORTED_WFS_FORMATS>>

\* The module-level lists after the handler of r ran: the handlers and the
\* service methods only read SUPPORTED_CRS, SUPPORTED_WMS_FORMATS and
\* SUPPORTED_WFS_FORMATS (`in` tests, arguments of response models).
RegistriesAfter(r) == <<SUPPORTED_CRS, SUPPORTED_WMS_FORMATS, SUPPORTED_WFS_FORMATS>>

InitConcurrent ==
    /\ SUPPORTED_CRS = SupportedCrsList
    /\ SUPPORTED_WMS_FORMATS = SupportedWmsFormatList
    /\ SUPPORTED_WFS_FORMATS = SupportedWfsFormatList
    /\ LimiterAsConstructed
    /\ phase = [t \in Tasks |-> "idle"]
    /\ req = [t \in Tasks |-> NoRequest]
    /\ resp = [t \in Tasks |-> NoResponse]
    /\ raised = [t \in Tasks |-> None]

\* A request arrives and is given to task t.
Accept(t) ==
    /\ phase[t] = "idle"
    /\ \E r \in ConcurrentRequests : req' = [req EXCEPT ![t] = r]
    /\ phase' = [phase EXCEPT ![t] = "handling"]
    /\ UNCHANGED <<resp, raised, registries, limiter>>

\* Task t runs the handler of its request.
Serve(t) ==
    /\ phase[t] = "handling"
    /\ resp' = [resp EXCEPT ![t] = Handle(req[t])]
    /\ raised' = [raised EXCEPT ![t] = Raised(TryHandle(req[t]))]
    /\ LET after == RegistriesAfter(req[t])
       IN  /\ SUPPORTED_CRS' = after[1]
           /\ SUPPORTED_WMS_FORMATS' = after[2]
           /\ SUPPORTED_WFS_FORMATS' = after[3]
    /\ phase' = [phase EXCEPT ![t] = "done"]
    /\ UNCHANGED <<req, limiter>>

\* The response of task t is sent.
Send(t) ==
    /\ phase[t] = "done"
    /\ phase' = [phase EXCEPT ![t] = "idle"]
    /\ req' = [req EXCEPT ![t] = NoRequest]
    /\ resp' = [resp EXCEPT ![t] = NoResponse]
    /\ raised' = [raised EXCEPT ![t] = None]
    /\ UNCHANGED <<registries, limiter>>

NextConcurrent == \E t \in Tasks : Accept(t) \/ Serve(t) \/ Send(t)

SpecConcurrent == InitConcurrent /\ [][NextConcurrent]_vars

\* -------------------------------------------------------------- rate limiting
\* RateLimitMiddleware.dispatch.  It has no await before call_next, so on the
\* event loop the clean-up, the test and the append of one request are one step.

MaxRequestsPerMinute == 2

MaxWindowSeconds == 2

MaxTime == 3

\* Status codes of the responses call_next returns.
DownstreamStatuses == {200, 400}

\* The list comprehension of dispatch: the timestamps less than window_seconds
\* old.
CleanUp(self, times) ==
    LET Recent(req_time) == current_time - req_time < self.window_seconds
    IN  SelectSeq(times, Recent)

\* The rate test letting one request more through.
RateLimited_OffByOne(self, times) == Len(times) > self.requests_per_minute

\* `len(self.requests[client_ip]) >= self.requests_per_minute`
RateLimited(self, times) == Len(times) >= self.requests_per_minute

\* `self.requests[client_ip] = times`
SetItem(dict, key, value) ==
    [k \in DOMAIN dict \cup {key} |-> IF k = key THEN value ELSE dict[k]]

\* JSONResponse(status_code=429, content=ErrorResponse(...).dict())
TooManyRequests ==
    [status |-> 429,
     content |-> [code |-> "RATE_LIMIT_EXCEEDED", message |-> "Too many requests",
                  details |-> None]]

InitRateLimit ==
    /\ SUPPORTED_CRS = SupportedCrsList
    /\ SUPPORTED_WMS_FORMATS = SupportedWmsFormatList
    /\ SUPPORTED_WFS_FORMATS = SupportedWfsFormatList
    /\ phase = "serving"
    /\ req = NoRequest
    /\ resp = NoResponse
    /\ raised = None
    /\ \E requests_per_minute \in 1..MaxRequestsPerMinute,
          window_seconds \in 1..MaxWindowSeconds :
           rate_limiter = RateLimitMiddleware(requests_per_minute, window_seconds)
    /\ current_time = 0
    /\ passed_on = [client_ip \in ClientHosts |-> <<>>]

\* RateLimitMiddleware.dispatch for a request of client_ip.
dispatch(client_ip) ==
    LET self == rate_limiter
        cleaned == IF client_ip \in DOMAIN self.requests
                   THEN CleanUp(self, self.requests[client_ip])
                   ELSE <<>>
    IN  /\ phase = "serving"
        /\ req' = [client_ip |-> client_ip, current_time |-> current_time]
        /\ IF RateLimited(self, cleaned)
           THEN /\ rate_limiter' =
                       [self EXCEPT !.requests = SetItem(@, client_ip, cleaned)]
                /\ resp' = TooManyRequests
                /\ UNCHANGED passed_on
           ELSE /\ rate_limiter' =
                       [self EXCEPT !.requests =
                            SetItem(@, client_ip, Append(cleaned, current_time))]
                /\ \E status \in DownstreamStatuses :
                       resp' = [status |-> status, content |-> "call_next"]
                /\ passed_on' =
                       [passed_on EXCEPT ![client_ip] = Append(@, current_time)]
        /\ UNCHANGED <<phase, raised, current_time, registries>>

Dispatch == \E client_ip \in ClientHosts : dispatch(client_ip)

\* Time passes: time.time() returns a later value.
Tick ==
    /\ current_time < MaxTime
    /\ current_time' = current_time + 1
    /\ UNCHANGED <<phase, req, resp, raised, rate_limiter, passed_on, registries>>

NextRateLimit == Dispatch \/ Tick

SpecRateLimit == InitRateLimit /\ [][NextRateLimit]_vars

\* -------------------------------------------------------------------- claims

Done == phase = "done"

IsCapabilities == req.endpoint \in {"/wms", "/wfs"}

IsOperation == req.endpoint \in {"/wms/map", "/wfs/feature"}

IsException == resp.status # 200

\* The service family an endpoint belongs to.
ServiceFamily == IF req.endpoint \in {"/wms", "/wms/map"} THEN "WMS" ELSE "WFS"

\* service and request name both pass the endpoint's checks.
RightServiceAndRequest == req.service = ServiceFamily /\ req.request_type = req.operation

\* The (code, text, locator) an exception response carries, read from its body.
ExcCode ==
    IF resp.body.enc = "json" THEN resp.body.doc.exception_code
    ELSE resp.body.doc.children[1].attrs.code

ExcText ==
    IF resp.body.enc = "json" THEN resp.body.doc.exception_text
    ELSE resp.body.doc.children[1].text

ExcLocator ==
    IF resp.body.enc = "json" THEN resp.body.doc.locator
    ELSE IF "locator" \in DOMAIN resp.body.doc.children[1].attrs
    THEN Some(resp.body.doc.children[1].attrs.locator)
    ELSE None

\* The negotiation rule: JSON only for a header that names application/json and
\* does not name application/xml.
JsonNegotiated(accept) ==
    /\ ~IsNone(accept)
    /\ IsSubstring(<<"application/json">>, Val(accept))
    /\ ~IsSubstring(<<"application/xml">>, Val(accept))

\* The response the same endpoint gives a valid GetCapabilities request that
\* carries the Accept header of req.
SuccessForSameAccept ==
    LET good == [req EXCEPT !.service = ServiceFamily, !.request_type = "GetCapabilities"]
    IN  IF req.endpoint = "/wms" THEN wms_get_capabilities(good)
        ELSE wfs_get_capabilities(good)

\* C1: on the GetCapabilities endpoints a request that ends in a protocol
\* exception is answered in the wire format (XML or JSON) that a successful
\* request with the same Accept header is answered in.
C1_ExceptionFormatAsSuccess ==
    (Done /\ IsCapabilities /\ IsException)
        => /\ SuccessForSameAccept.status = 200
           /\ resp.body.enc = SuccessForSameAccept.body.enc

\* C2: a failed GetMap or GetFeature request is answered with an exception
\* document in the format negotiated from the Accept header (XML unless the
\* header names application/json and not application/xml); without an Accept
\* header it is XML with Content-Type application/xml.
C2_OperationExceptionNegotiated ==
    (Done /\ IsOperation /\ IsException)
        => IF JsonNegotiated(req.accept)
           THEN resp.body.enc = "json" /\ resp.media_type = "application/json"
           ELSE resp.body.enc = "xml" /\ resp.media_type = "application/xml"

\* C3: a successful GetCapabilities response (WMS or WFS) is JSON exactly when
\* the Accept header is present, names application/json and does not name
\* application/xml; otherwise it is XML with media type application/xml.
C3_CapabilitiesNegotiation ==
    (Done /\ IsCapabilities /\ ~IsException)
        => IF JsonNegotiated(req.accept)
           THEN resp.body.enc = "json" /\ resp.media_type = "application/json"
           ELSE resp.body.enc = "xml" /\ resp.media_type = "application/xml"

C3_Witness ==
    /\ Done /\ IsCapabilities /\ ~IsException
    /\ ~IsNone(req.accept)
    /\ IsSubstring(<<"application/json">>, Val(req.accept))
    /\ IsSubstring(<<"application/xml">>, Val(req.accept))
    /\ resp.body.enc = "xml"

\* The exception that started a failure: the __context__ of an exception raised
\* while handling another one, else the exception itself.
RootCause(e) ==
    IF e.cls = "OGCServiceException" /\ ~IsNone(e.context) THEN Val(e.context) ELSE e

\* A failure of parameter validation: a protocol exception raised by a check of
\* a parameter, or the ValueError of parse_bbox_string.
IsValidationFailure(e) == RootCause(e).cls \in {"OGCServiceException", "ValueError"}

\* C4: on all four endpoints a failure caused by an invalid request parameter
\* is answered with HTTP 400 and any other (internal, unexpected) failure,
\* wherever it is raised, with HTTP 500.
C4_StatusByFailureKind ==
    (Done /\ ~IsNone(raised))
        => IF IsValidationFailure(Val(raised))
           THEN resp.status = 400
           ELSE resp.status = 500

\* A failure that did not start as a protocol exception.
IsNonProtocolFailure == ~IsNone(raised) /\ RootCause(Val(raised)).cls # "OGCServiceException"

\* C5 (as claimed): a failure that is not already a protocol exception reaches
\* the client with code NoApplicableCode, the operation name as locator and the
\* underlying message inside the exception text.
C5_NonProtocolIsNoApplicableCode ==
    (Done /\ IsNonProtocolFailure)
        => /\ IsException
           /\ ExcCode = "NoApplicableCode"
           /\ ExcLocator = Some(req.operation)
           /\ IsSubstring(RootCause(Val(raised)).msg, ExcText)

\* C5 (amended): a failure raised inside WMSService.get_map or
\* WFSService.get_feature that is not already a protocol exception reaches the
\* client with code OperationProcessingFailed, the operation name as locator
\* and the underlying message inside the exception text.
C5_NonProtocolIsProcessingFailed ==
    (Done /\ IsOperation /\ IsNonProtocolFailure)
        => /\ IsException
           /\ ExcCode = "OperationProcessingFailed"
           /\ ExcLocator = Some(req.operation)
           /\ IsSubstring(RootCause(Val(raised)).msg, ExcText)

C5_Witness ==
    /\ Done /\ req.endpoint = "/wfs/feature" /\ IsNonProtocolFailure
    /\ RootCause(Val(raised)).cls = "TypeError"
    /\ ExcCode = "OperationProcessingFailed"

UnsupportedCrs(given) ==
    \/ req.endpoint = "/wms/map" /\ ~InList(req.crs, SUPPORTED_CRS)
    \/ req.endpoint = "/wfs/feature" /\ given /\ ~InList(Val(req.crs), SUPPORTED_CRS)

InvalidCRSAnswered ==
    /\ IsException
    /\ ExcCode = "InvalidCRS"
    /\ ExcLocator = Some(req.operation)

PassesCrsCheck ==
    /\ RightServiceAndRequest
    /\ req.endpoint = "/wms/map" => InList(req.crs, SUPPORTED_CRS)
    /\ req.endpoint = "/wfs/feature"
           => (IsNone(req.crs) \/ Val(req.crs) = "" \/ InList(Val(req.crs), SUPPORTED_CRS))

FourNumericTokens(s) ==
    LET toks == Split(s, ",")
    IN  Len(toks) = 4 /\ \A i \in 1..Len(toks) : ParseFloat(toks[i]).ok

\* The request reaches the parsing of a bbox that is not 4 numeric tokens;
\* `given` says when the optional bbox of GetFeature counts as given.
MalformedBBoxParsed(given) ==
    /\ PassesCrsCheck
    /\ \/ /\ req.endpoint = "/wms/map"
          /\ InList(req.format, SUPPORTED_WMS_FORMATS)
          /\ ~FourNumericTokens(req.bbox)
       \/ /\ req.endpoint = "/wfs/feature"
          /\ InList(req.output_format, SUPPORTED_WFS_FORMATS)
          /\ given /\ ~FourNumericTokens(Val(req.bbox))

LayerNames == { WmsLayers[i].name : i \in 1..Len(WmsLayers) }

\* Every item of the comma-separated list is the name of a registry layer.
AllLayersKnown(layers) ==
    LET items == Split(layers, ",")
    IN  \A i \in 1..Len(items) : \E n \in LayerNames : items[i] = <<n>>

\* C10: a GetMap request is processed successfully only if every name in its
\* comma-separated layers list names a layer of the registry.
C10_OnlyKnownLayers ==
    (Done /\ req.endpoint = "/wms/map" /\ ~IsException) => AllLayersKnown(req.layers)

\* The names of the feature types in the registry.
FeatureTypeNames == { WfsFeatureTypes[i].name : i \in 1..Len(WfsFeatureTypes) }

\* Every item of the comma-separated list is the name of a registry feature type.
AllTypesKnown(type_names) ==
    LET items == Split(type_names, ",")
    IN  \A i \in 1..Len(items) : \E n \in FeatureTypeNames : items[i] = <<n>>

\* C11: a GetFeature request is processed successfully only if every name in
\* its comma-separated type_names list is a known feature type; a request
\* naming an unknown type never gets a feature collection.
C11_OnlyKnownTypeNames ==
    (Done /\ req.endpoint = "/wfs/feature" /\ ~IsException)
        => AllTypesKnown(req.type_names)

\* C12: a GetFeature request whose count is given is processed successfully
\* only if that count is positive; a count of 0 or below never yields a feature
\* collection.
C12_CountPositive ==
    (Done /\ req.endpoint = "/wfs/feature" /\ ~IsException)
        => (IsNone(req.count) \/ Val(req.count) > 0)

\* C13: a GetMap request is processed successfully only if its width and its
\* height are both positive.
C13_PositiveSize ==
    (Done /\ req.endpoint = "/wms/map" /\ ~IsException)
        => (req.width > 0 /\ req.height > 0)

\* The number of items of a comma-separated list, as str.split(",") counts them.
ItemCount(list) == Len(Split(list, ","))

\* The request passes every check the handler and WMSService.get_map make.
PassesMapChecks ==
    /\ req.endpoint = "/wms/map"
    /\ PassesCrsCheck
    /\ InList(req.format, SUPPORTED_WMS_FORMATS)
    /\ FourNumericTokens(req.bbox)

\* C14: a GetMap request with a non-empty styles parameter is processed
\* successfully only if it has as many comma-separated style names as layer
\* names; a request with an empty styles parameter is accepted whatever the
\* number of its layers.
C14_StylesMatchLayers ==
    /\ (Done /\ req.endpoint = "/wms/map" /\ ~IsException /\ Len(req.styles) > 0)
           => ItemCount(req.styles) = ItemCount(req.layers)
    /\ (Done /\ PassesMapChecks /\ Len(req.styles) = 0) => ~IsException

\* C15: a GetMap request that is processed successfully has a bbox of 4
\* numbers with minX <= maxX and minY <= maxY.
C15_OrderedBBox ==
    (Done /\ req.endpoint = "/wms/map" /\ ~IsException)
        => LET bbox == parse_bbox_string(req.bbox)
           IN  bbox.ok /\ bbox.v[1] <= bbox.v[3] /\ bbox.v[2] <= bbox.v[4]

\* The bbox string "-74.1,40.7,-73.9,40.8".
ManhattanBBox ==
    <<"-", "7", "4", ".", "1", ",", "4", "0", ".", "7", ",",
      "-", "7", "3", ".", "9", ",", "4", "0", ".", "8">>

\* The request is GetFeature with type_names=points_of_interest, the bbox
\* -74.1,40.7,-73.9,40.8, no count, and service, request, crs and
\* output_format that are accepted.
EmpireStateRequest ==
    /\ Done /\ req.endpoint = "/wfs/feature" /\ PassesCrsCheck
    /\ InList(req.output_format, SUPPORTED_WFS_FORMATS)
    /\ req.type_names = <<"points_of_interest">>
    /\ req.bbox = Some(ManhattanBBox)
    /\ IsNone(req.count)

\* C16: GetFeature with type_names=points_of_interest and
\* bbox=-74.1,40.7,-73.9,40.8 (no count) returns a FeatureCollection with
\* exactly one feature, the point "Empire State Building" at
\* [-73.985428, 40.748817], and without "Statue of Liberty".
C16_OnlyEmpireState ==
    EmpireStateRequest
        => /\ ~IsException
           /\ resp.body.doc.type = "FeatureCollection"
           /\ Len(resp.body.doc.features) = 1
           /\ resp.body.doc.features[1].properties.name = "Empire State Building"
           /\ resp.body.doc.features[1].geometry.type = "Point"
           /\ resp.body.doc.features[1].geometry.coordinates = <<-73985428, 40748817>>

\* C17: every GetMap request that passes validation is answered with HTTP 200,
\* a Content-Type equal to its format parameter, and a body that is, byte for
\* byte, the payload WMSService.get_map returned for it.
C17_MapResponse ==
    (Done /\ PassesMapChecks)
        => LET image_data == WMSService_get_map(WMSGetMapRequest(req))
           IN  /\ image_data.ok
               /\ resp.status = 200
               /\ resp.media_type = req.format
               /\ resp.body.enc = "bytes"
               /\ resp.body.doc = image_data.v

C17_Witness ==
    /\ Done /\ PassesMapChecks
    /\ req.layers = <<"basemap">> /\ req.crs = "EPSG:4326"
    /\ req.width = 256 /\ req.height = 256
    /\ req.format = "image/jpeg"
    /\ resp.status = 200 /\ resp.media_type = "image/jpeg"
    /\ resp.body.doc = MapPlaceholder

\* C18: a GetCapabilities request with service=WMS, request=GetCapabilities
\* and no Accept header is answered with HTTP 200 and an XML document whose
\* root element is WMS_Capabilities and whose version attribute is the
\* configured WMS version string, the one the capabilities model carries.
C18_WmsCapabilitiesRoot ==
    (Done /\ req.endpoint = "/wms" /\ RightServiceAndRequest /\ IsNone(req.accept))
        => /\ resp.status = 200
           /\ resp.body.enc = "xml"
           /\ resp.body.doc.root = "WMS_Capabilities"
           /\ resp.body.doc.attrs.version = OGCVersion_WMS_1_3_0
           /\ WMSService_get_capabilities.ok
           /\ resp.body.doc.attrs.version = WMSService_get_capabilities.v.version

C18_Witness ==
    /\ Done /\ req.endpoint = "/wms"
    /\ req.service = "WMS" /\ req.request_type = "GetCapabilities"
    /\ IsNone(req.accept)
    /\ resp.status = 200
    /\ resp.body.doc.root = "WMS_Capabilities"
    /\ resp.body.doc.attrs.version = "1.3.0"

\* The (code, text, locator) triple read back from an XML exception document:
\* the locator is the locator attribute of the ServiceException, None without it.
XmlTriple(doc) ==
    LET se == doc.children[1]
    IN  <<se.attrs.code, se.text,
          IF "locator" \in DOMAIN se.attrs THEN Some(se.attrs.locator) ELSE None>>

\* The triple read back from a JSON exception document.
JsonTriple(doc) == <<doc.exception_code, doc.exception_text, doc.locator>>

\* C19: the XML and the JSON document of one exception carry the same (code,
\* message, locator) triple, that of the exception.  The XML document is a
\* ServiceExceptionReport with exactly one ServiceException child, the code as
\* its attribute "code", the message as its text and a "locator" attribute
\* exactly when the exception has a locator; the JSON document is a flat
\* object with exactly the keys exception_code, exception_text and locator.
C19_SameTriple ==
    phase = "formatted"
        => LET e == Val(raised)
               x == resp.xml.body
               j == resp.json.body
           IN  /\ x.enc = "xml" /\ j.enc = "json"
               /\ x.doc.root = "ServiceExceptionReport"
               /\ Len(x.doc.children) = 1
               /\ x.doc.children[1].tag = "ServiceException"
               /\ x.doc.children[1].attrs.code = e.exception_code
               /\ x.doc.children[1].text = e.exception_text
               /\ ("locator" \in DOMAIN x.doc.children[1].attrs) <=> ~IsNone(e.locator)
               /\ DOMAIN j.doc = {"exception_code", "exception_text", "locator"}
               /\ XmlTriple(x.doc) = <<e.exception_code, e.exception_text, e.locator>>
               /\ JsonTriple(j.doc) = XmlTriple(x.doc)

C19_Witness ==
    /\ phase = "formatted"
    /\ IsNone(Val(raised).locator)
    /\ "locator" \notin DOMAIN resp.xml.body.doc.children[1].attrs
    /\ resp.json.body.doc.locator = None
    /\ resp.xml.body.doc.children[1].attrs.code = "InvalidGeometry"
    /\ resp.json.body.doc.exception_code = "InvalidGeometry"

\* The body of the response is one exception: a JSON object with the three
\* exception fields, or a ServiceExceptionReport with one ServiceException.
CarriesOneException ==
    IF resp.body.enc = "json"
    THEN DOMAIN resp.body.doc = {"exception_code", "exception_text", "locator"}
    ELSE /\ resp.body.enc = "xml"
         /\ resp.body.doc.root = "ServiceExceptionReport"
         /\ Len(resp.body.doc.children) = 1
         /\ resp.body.doc.children[1].tag = "ServiceException"

RegistriesAsImported ==
    /\ SUPPORTED_CRS = SupportedCrsList
    /\ SUPPORTED_WMS_FORMATS = SupportedWmsFormatList
    /\ SUPPORTED_WFS_FORMATS = SupportedWfsFormatList

\* C21: whatever the interleaving of concurrently handled GetCapabilities,
\* GetMap and GetFeature requests, the CRS list, the format lists and the
\* descriptors built from them are never modified, and the response of every
\* request is the response the handler gives that request on the lists as
\* imported, that is, when it is handled alone.
C21_IsolatedRequests ==
    /\ RegistriesAsImported
    /\ \A t \in Tasks : phase[t] = "done" => resp[t] = Handle(req[t])

C21_Witness ==
    /\ phase[1] = "done" /\ phase[2] = "done"
    /\ req[1].endpoint = "/wms/map" /\ req[1].crs = "EPSG:9999"
    /\ resp[1].status = 400
    /\ req[2].endpoint = "/wms/map" /\ req[2].crs = "EPSG:4326"
    /\ resp[2].status = 200

\* C22: for four numbers with minLon <= maxLon and minLat <= maxLat,
\* parse_bbox_string of their comma-joined string returns exactly those four
\* numbers, in the same order.
C22_BBoxRoundTrip ==
    (phase = "parsed" /\ req.bbox[1] <= req.bbox[3] /\ req.bbox[2] <= req.bbox[4])
        => (resp.ok /\ resp.v = req.bbox)

C22_Witness ==
    /\ phase = "parsed"
    /\ req.bbox = <<-74100000, -15, 0, 40748817>>
    /\ JoinBBox(req.bbox) =
           <<"-", "7", "4", ".", "1", ",", "-", "1", ".", "5", "e", "-", "0", "5", ",",
             "0", ".", "0", ",", "4", "0", ".", "7", "4", "8", "8", "1", "7">>
    /\ resp.ok /\ resp.v = req.bbox

\* The features of the sequence that the bbox rule keeps, in their order: every
\* feature whose geometry is not a Point, and every Point with
\* minX <= x <= maxX and minY <= y <= maxY.
RECURSIVE InsideBBox(_, _)
InsideBBox(features, bbox) ==
    IF Len(features) = 0 THEN <<>>
    ELSE LET geom == Head(features).geometry
             keep == \/ geom.type # "Point"
                     \/ /\ bbox[1] <= geom.coordinates[1] /\ geom.coordinates[1] <= bbox[3]
                        /\ bbox[2] <= geom.coordinates[2] /\ geom.coordinates[2] <= bbox[4]
         IN  (IF keep THEN <<Head(features)>> ELSE <<>>)
                 \o InsideBBox(Tail(features), bbox)

\* The request passes the service, request, CRS and format checks of GetFeature.
PassesFeatureChecks ==
    /\ req.endpoint = "/wfs/feature"
    /\ PassesCrsCheck
    /\ InList(req.output_format, SUPPORTED_WFS_FORMATS)

\* C23: a GetFeature request that carries a bbox of 4 numbers succeeds, and
\* (before any count cap) its features are, in source order, the source
\* features that are not Points and the Points inside the bbox, bounds
\* inclusive.
C23_BBoxFilter ==
    (Done /\ PassesFeatureChecks /\ ~IsNone(req.bbox) /\ FourNumericTokens(Val(req.bbox)))
        => /\ ~IsException
           /\ IsNone(req.count)
                  => resp.body.doc.features
                         = InsideBBox(SampleFeatures(req.type_names),
                                      parse_bbox_string(Val(req.bbox)).v)

\* The bbox-filtered list the count filter works on.
BBoxFiltered ==
    IF IsNone(req.bbox) THEN SampleFeatures(req.type_names)
    ELSE InsideBBox(SampleFeatures(req.type_names), parse_bbox_string(Val(req.bbox)).v)

\* C24: the count filter works on the bbox-filtered list: with a count and
\* more than count features in that list the result is its first count
\* features, otherwise the whole list.
C24_CountAfterBBox ==
    (Done /\ PassesFeatureChecks
          /\ (IsNone(req.bbox) \/ FourNumericTokens(Val(req.bbox))))
        => /\ ~IsException
           /\ resp.body.doc.features
                  = IF ~IsNone(req.count) /\ Len(BBoxFiltered) > Val(req.count)
                    THEN SubSeq(BBoxFiltered, 1, Val(req.count))
                    ELSE BBoxFiltered

\* The features of one type name, as the feature source returns them.
FeaturesOfType(name) ==
    IF name = <<"points_of_interest">> THEN PointsOfInterestFeatures
    ELSE IF name = <<"boundaries">> THEN BoundariesFeatures
    ELSE <<>>

\* The features of the type names, concatenated in the order of the names.
RECURSIVE ConcatByTypeName(_)
ConcatByTypeName(names) ==
    IF Len(names) = 0 THEN <<>>
    ELSE FeaturesOfType(Head(names)) \o ConcatByTypeName(Tail(names))

\* C25: the unfiltered GetFeature result is the concatenation of the features
\* of each requested type name, in the order of the names in type_names; a
\* name contributes features only when it is one of the comma-separated items.
C25_TypeNameOrder ==
    (Done /\ PassesFeatureChecks /\ IsNone(req.bbox) /\ IsNone(req.count))
        => /\ ~IsException
           /\ resp.body.doc.features = ConcatByTypeName(Split(req.type_names, ","))

\* C26: in the feature capabilities document, for every feature type with a
\* non-empty CRS list L the default CRS is L[0] and the "other" CRS entries are
\* L[1..] in order: default followed by others is L, nothing dropped or
\* duplicated.
C26_DefaultThenOthers ==
    phase = "formatted"
        => \A i \in 1..Len(req.feature_types) :
               LET L == req.feature_types[i].crs
                   elem == resp.body.doc.feature_type_list[i]
               IN  Len(L) > 0
                       => /\ elem.default_crs = L[1]
                          /\ elem.other_crs = Tail(L)
                          /\ <<elem.default_crs>> \o elem.other_crs = L

C26_Witness ==
    /\ phase = "formatted"
    /\ req.feature_types[1].crs = <<"EPSG:3857", "EPSG:4326", "EPSG:3857">>
    /\ resp.body.doc.feature_type_list[1].default_crs = "EPSG:3857"
    /\ resp.body.doc.feature_type_list[1].other_crs = <<"EPSG:4326", "EPSG:3857">>

\* The failure of a transform is one protocol exception with this code and
\* locator.
TransformFailedWith(code, locator) ==
    /\ ~resp.ok
    /\ resp.exc.cls = "OGCServiceException"
    /\ resp.exc.exception_code = code
    /\ resp.exc.locator = Some(locator)
    /\ raised = Some(resp.exc)

\* C27: every failure inside transform_bbox surfaces as one exception with
\* code InvalidCRS and locator "transform_bbox", every failure inside
\* transform_geometry as one exception with code InvalidGeometry and locator
\* "transform_geometry"; no other error type escapes, and the call leaves its
\* input bbox or geometry as it was.
C27_TransformFailures ==
    /\ [](phase = "returned"
            => /\ (req.operation = "transform_bbox"
                      /\ ~TransformBBoxBody(req.input, req.source_crs, req.target_crs).ok)
                   => TransformFailedWith("InvalidCRS", "transform_bbox")
               /\ (req.operation = "transform_geometry"
                      /\ ~TransformGeometryBody(req.input, req.source_crs,
                                                req.target_crs).ok)
                   => TransformFailedWith("InvalidGeometry", "transform_geometry")
               /\ ~resp.ok => resp.exc.cls = "OGCServiceException")
    /\ [][req'.input = req.input]_vars

C27_Witness ==
    /\ phase = "returned"
    /\ req.operation = "transform_geometry"
    /\ req.input.type = "Point"
    /\ req.source_crs = "EPSG:999999"
    /\ TransformFailedWith("InvalidGeometry", "transform_geometry")
    /\ Val(resp.exc.context).cls = "CRSError"

\* The argument is a bbox of four numbers or a GeoJSON geometry.
WellFormedInput ==
    IF req.operation = "transform_bbox" THEN Len(req.input) = 4
    ELSE shape(req.input).ok

\* C28: for every CRS identifier c and every bbox or geometry g, out-of-range
\* coordinates included, transform_bbox(g, c, c) and transform_geometry(g, c, c)
\* return a value equal to g and do not fail.
C28_SameCrsIdentity ==
    (phase = "returned" /\ req.source_crs = req.target_crs /\ WellFormedInput)
        => (resp.ok /\ resp.v = req.input)

\* C29: after any sequence of OGC requests, WMSService.get_capabilities and
\* WFSService.get_capabilities return the document they returned before it
\* (same version, layers or feature types, formats, CRS list and metadata, in
\* the same order), hence the document of the first call, and no step, a
\* capabilities call included, changes a module-level list.
C29_StableCapabilities ==
    [][ /\ WMSService_get_capabilities' = WMSService_get_capabilities
        /\ WFSService_get_capabilities' = WFSService_get_capabilities
        /\ registries' = registries ]_vars

C29_Witness ==
    /\ phase[1] = "done" /\ req[1].endpoint = "/wfs/feature"
    /\ phase[2] = "done" /\ req[2].endpoint = "/wms" /\ req[2].accept = None
    /\ resp[2].status = 200
    /\ resp[2].body = format_wms_capabilities_xml(WMSService_get_capabilities.v)

\* The requests of client_ip that were passed on and whose timestamp is less
\* than window_seconds old.
RecentPassedOn(client_ip) ==
    { i \in 1..Len(passed_on[client_ip]) :
          current_time - passed_on[client_ip][i] < rate_limiter.window_seconds }

\* The list is the end of the other list.
IsSuffix(list, other) ==
    /\ Len(list) <= Len(other)
    /\ list = SubSeq(other, Len(other) - Len(list) + 1, Len(other))

====
